---- MODULE Spec2Model ----
(***************************************************************************)
(* WCCCD Virtual Assistant, chatbot_interface.py.                          *)
(*                                                                         *)
(* One browser session of the Streamlit page.  main() is a script that     *)
(* runs from the top on every widget event and on every st.rerun(); pc is   *)
(* the position of the running script, "idle" when no script runs and the  *)
(* page waits for a widget event.                                          *)
(*                                                                         *)
(* A text is a sequence of tokens.  An f-string or a + of strings is the   *)
(* concatenation of the token sequences, "\n" is a token of its own, and   *)
(* "the text contains s" is "s is a contiguous run of tokens of the text". *)
(***************************************************************************)
EXTENDS Integers, Sequences, FiniteSets, TLC

\* ------------------------------------------------------------- bounds
\* Longest transcript a submit is still accepted on.
MaxTurns == 5
\* Most passages the knowledge store answers one query with.
MaxHits == 2
\* Last day of the clock.
MaxDay == 2
\* Longest transcript handed to get_transcript in SpecExport.
MaxExportLen == 2

\* ------------------------------------------------------------- texts
NL == "\n"

RECURSIVE Join(_, _)
\* sep.join(parts)
Join(sep, parts) ==
    IF parts = << >> THEN << >>
    ELSE IF Len(parts) = 1 THEN parts[1]
    ELSE parts[1] \o sep \o Join(sep, Tail(parts))

\* s occurs in text at token position p.
OccursAt(text, s, p) ==
    /\ p >= 1
    /\ p + Len(s) - 1 <= Len(text)
    /\ SubSeq(text, p, p + Len(s) - 1) = s

\* s in text
Contains(text, s) == \E p \in 1..(Len(text) + 1) : OccursAt(text, s, p)

\* a is a prefix of b.
IsPrefix(a, b) == Len(a) <= Len(b) /\ SubSeq(b, 1, Len(a)) = a

\* ------------------------------------------------------------- configuration
TOP_K_RESULTS == 20

\* The fixed reply of main() when the search finds nothing.
no_information_response ==
    << "I couldn't find any relevant information in the college website content.",
       "Please try rephrasing your question or contact WCCCD directly at",
       "(313) 496-2600", "or visit wcccd.edu." >>

\* The greeting main() puts into an empty chat.
welcome_message ==
    << "Welcome to WCCCD!", NL, NL,
       "I am a chatbot here to help with your Academic Journey!", NL, NL,
       "- When does registration start?", NL, NL,
       "Just a quick note: please don't share sensitive personal information" >>

\* What the visitor types into st.chat_input: non-empty texts.
Queries ==
    { << "When does registration start?" >>,
      << "asdkjasdlk" >>,
      << "Student:", NL, "what about", "Assistant:" >> }

\* What the language model answers: any text.
Replies ==
    { << "Registration starts March 1.", "Visit",
         "https://www.wcccd.edu/registration", "for more information." >>,
      << "According to the 2025-2026 catalog", "ACC 201", "is required.",
         "(313) 496-2634" >> }

\* The passages of the college_knowledge collection.
KnowledgeBase ==
    << [ content |-> << "Fall registration opens", "March 1." >>,
         url     |-> << "https://www.wcccd.edu/registration" >>,
         title   |-> << "Registration" >> ],
       [ content |-> << "The FAFSA school code is", "009230." >>,
         url     |-> << "https://www.wcccd.edu/financial-aid" >>,
         title   |-> << "Financial Aid" >> ],
       [ content |-> << "Log into Blackboard with", "your WCCCD email." >>,
         url     |-> << "https://www.wcccd.edu/blackboard" >>,
         title   |-> << "Blackboard" >> ] >>

\* datetime.now().strftime('%B %d, %Y') on day d of the clock.
strftime(d) ==
    << "November", (IF d < 10 THEN "0" ELSE "") \o ToString(d) \o ",", "2026" >>

\* ------------------------------------------------------------- knowledge store
Min(a, b) == IF a <= b THEN a ELSE b

\* The hit lists the store can answer with: up to n_results distinct passages
\* of the collection, in any order (the ranking is the store's own).
Hits(n_results) ==
    { s \in UNION { [1..k -> 1..Len(KnowledgeBase)] :
                        k \in 0..Min(n_results, MaxHits) } :
        \A i, j \in 1..Len(s) : s[i] = s[j] => i = j }

\* What collection.query(query_texts=[query], n_results=top_k) returns for
\* the hit list s: one inner list per query text.
QueryResult(s) ==
    [ documents |-> << [ i \in 1..Len(s) |-> KnowledgeBase[s[i]].content ] >>,
      metadatas |-> << [ i \in 1..Len(s) |->
                           [ url   |-> KnowledgeBase[s[i]].url,
                             title |-> KnowledgeBase[s[i]].title ] ] >> ]

NoResult == [ documents |-> << >>, metadatas |-> << >> ]

\* search_knowledge_base reading the first hit's metadata for every hit.
search_knowledge_base_first_metadata(results) ==
    IF results.documents # << >> /\ results.documents[1] # << >>
    THEN [ i \in 1..Len(results.documents[1]) |->
             [ content |-> results.documents[1][i],
               url     |-> results.metadatas[1][1].url,
               title   |-> results.metadatas[1][1].title ] ]
    ELSE << >>

\* search_knowledge_base, after the collection.query call.
search_knowledge_base(results) ==
    IF results.documents # << >> /\ results.documents[1] # << >>
    THEN [ i \in 1..Len(results.documents[1]) |->
             [ content |-> results.documents[1][i],
               url     |-> results.metadatas[1][i].url,
               title   |-> results.metadatas[1][i].title ] ]
    ELSE << >>

\* ------------------------------------------------------------- prompt
\* f"Source: {chunk['title']} ({chunk['url']})\n{chunk['content']}"
SourceBlock(chunk) ==
    << "Source: " >> \o chunk.title \o << " (" >> \o chunk.url
        \o << ")", NL >> \o chunk.content

\* context = "\n\n".join([... for chunk in relevant_chunks])
Context(relevant_chunks) ==
    Join(<< NL, NL >>,
         [ i \in 1..Len(relevant_chunks) |-> SourceBlock(relevant_chunks[i]) ])

\* The prompt f-string of generate_response on day d.
Prompt(d, query, relevant_chunks) ==
    << "You are a helpful academic assistant for Wayne County Community College District.",
       NL, NL, "TODAY'S DATE: " >>
    \o strftime(d)
    \o << NL,
          "IMPORTANT: Only mention events happening TODAY or LATER. Skip any past events.",
          NL, NL, "Context from WCCCD catalog and website:", NL >>
    \o Context(relevant_chunks)
    \o << NL, NL, "Student's question: " >>
    \o query
    \o << NL, NL, "RESPONSE RULES:", NL, NL, "EXAMPLES:", NL, NL,
          "Now answer the student's question:" >>

\* message.content[0].text of the API answer carrying the text r.
ApiMessage(r) == [ content |-> << [ type |-> "text", text |-> r ] >> ]

NoMessage == [ content |-> << >> ]

\* ------------------------------------------------------------- transcript export
\* The label taken from the role itself: "User" for a user turn.
RoleLabelFromRole(msg) == IF msg.role = "user" THEN "User" ELSE "Assistant"

\* role = "Student" if msg["role"] == "user" else "Assistant"
RoleLabel(msg) == IF msg.role = "user" THEN "Student" ELSE "Assistant"

\* f"{role}:\n{msg['content']}\n\n" followed by "-"*50 + "\n\n"
TranscriptBlock(msg) ==
    << RoleLabel(msg) \o ":", NL >> \o msg.content
        \o << NL, NL, "--------------------------------------------------", NL, NL >>

RECURSIVE TranscriptBlocks(_)
\* the for loop of get_transcript
TranscriptBlocks(msgs) ==
    IF msgs = << >> THEN << >>
    ELSE TranscriptBlock(Head(msgs)) \o TranscriptBlocks(Tail(msgs))

get_transcript(msgs) ==
    IF msgs = << >>
    THEN << "No conversation yet." >>
    ELSE << "WCCCD Virtual Assistant - Chat Transcript", NL,
            "==================================================", NL, NL >>
         \o TranscriptBlocks(msgs)

\* ------------------------------------------------------------- state
VARIABLES
    messages,            \* st.session_state.messages
    show_about,          \* st.session_state.show_about
    chatbot,             \* what st.cache_resource holds for initialize_chatbot
    collection_exists,   \* chroma_db holds the college_knowledge collection
    ANTHROPIC_API_KEY,   \* the environment sets the key
    now,                 \* the day of the clock
    pc,                  \* position of the running script, "idle" when none runs
    event,               \* the widget event the running script was started by
    rerun_from,          \* the st.rerun() call the running script was started by
    widgets,             \* the enabled widgets the last script rendered
    transcript,          \* main: transcript, the data of the download button
    results,             \* search_knowledge_base: results
    relevant_chunks,     \* main: relevant_chunks
    prompt,              \* generate_response: prompt, as sent to the API
    message,             \* generate_response: message, the API answer
    response,            \* main: response
    exception,           \* the uncaught exception that ended the script
    llm_calls,           \* messages.create calls made by the running script
    messages_at_submit   \* the transcript when the visitor sent the query

vars ==
    << messages, show_about, chatbot, collection_exists, ANTHROPIC_API_KEY, now,
       pc, event, rerun_from, widgets, transcript, results, relevant_chunks,
       prompt, message, response, exception, llm_calls, messages_at_submit >>

environment == << collection_exists, ANTHROPIC_API_KEY, now >>

locals == << transcript, results, relevant_chunks, prompt, message, response >>

NoEvent == [ kind |-> "none", query |-> << >> ]

Uncached == [ cached |-> FALSE, collection |-> "None", anthropic_client |-> "None" ]

UserTurn(query) == [ role |-> "user", content |-> query ]

AssistantTurn(text) == [ role |-> "assistant", content |-> text ]

\* A script starts at the top of main(): no widget is rendered yet and the
\* locals of the run before are gone.  Lines 163-167 change nothing once the
\* session holds messages and show_about.
StartScript(ev, by) ==
    /\ pc' = "menu_clear"
    /\ event' = ev
    /\ rerun_from' = by
    /\ widgets' = { }
    /\ transcript' = << >>
    /\ results' = NoResult
    /\ relevant_chunks' = << >>
    /\ prompt' = << >>
    /\ message' = NoMessage
    /\ response' = << >>
    /\ exception' = "none"
    /\ llm_calls' = 0
    /\ messages_at_submit' = IF ev.kind = "submit" THEN messages ELSE << >>

\* The first script of the session, after lines 163-167.
Init ==
    /\ messages = << >>
    /\ show_about = FALSE
    /\ chatbot = Uncached
    /\ collection_exists \in BOOLEAN
    /\ ANTHROPIC_API_KEY \in BOOLEAN
    /\ now = 1
    /\ pc = "menu_clear"
    /\ event = NoEvent
    /\ rerun_from = "none"
    /\ widgets = { }
    /\ transcript = << >>
    /\ results = NoResult
    /\ relevant_chunks = << >>
    /\ prompt = << >>
    /\ message = NoMessage
    /\ response = << >>
    /\ exception = "none"
    /\ llm_calls = 0
    /\ messages_at_submit = << >>

\* ------------------------------------------------------------- widget events
\* A click on an enabled button of the rendered page starts a script in
\* which that button reads True.
Clicked(key, kind) ==
    /\ key \in widgets
    /\ StartScript([ kind |-> kind, query |-> << >> ], "none")
    /\ UNCHANGED << messages, show_about, chatbot, environment >>

ClickClear ==
    /\ pc = "idle"
    /\ Clicked("menu_clear", "clear")

ClickDownload ==
    /\ pc = "idle"
    /\ Clicked("menu_download", "download")

ClickAbout ==
    /\ pc = "idle"
    /\ Clicked("menu_about", "about")

ClickClose ==
    /\ pc = "idle"
    /\ Clicked("close_about", "close")

\* The visitor sends a non-empty text through st.chat_input.
SubmitQuery ==
    /\ pc = "idle"
    /\ "chat_input" \in widgets
    /\ Len(messages) + 2 <= MaxTurns
    /\ \E q \in Queries : StartScript([ kind |-> "submit", query |-> q ], "none")
    /\ UNCHANGED << messages, show_about, chatbot, environment >>

\* A day passes while the page waits.  generate_response reads the clock
\* once, when it builds the prompt, so a day that passes while a script runs
\* is a day that passed before or after that script.
Tick ==
    /\ pc = "idle"
    /\ now < MaxDay
    /\ now' = now + 1
    /\ UNCHANGED << messages, show_about, chatbot, collection_exists,
                    ANTHROPIC_API_KEY, pc, event, rerun_from, widgets, locals,
                    exception, llm_calls, messages_at_submit >>

\* ------------------------------------------------------------- main()
\* if st.button("Clear Conversation"): messages = []; st.rerun()
MenuClear ==
    /\ pc = "menu_clear"
    /\ IF event.kind = "clear"
       THEN /\ messages' = << >>
            /\ StartScript(NoEvent, "clear")
       ELSE /\ pc' = "menu_download"
            /\ widgets' = widgets \cup { "menu_clear" }
            /\ UNCHANGED << messages, event, rerun_from, locals, exception,
                            llm_calls, messages_at_submit >>
    /\ UNCHANGED << show_about, chatbot, environment >>

\* The download button: enabled, with get_transcript() as its data, when the
\* chat holds more than one message.
MenuDownload ==
    /\ pc = "menu_download"
    /\ IF messages # << >> /\ Len(messages) > 1
       THEN /\ transcript' = get_transcript(messages)
            /\ widgets' = widgets \cup { "menu_download" }
       ELSE UNCHANGED << transcript, widgets >>
    /\ pc' = "menu_about"
    /\ UNCHANGED << messages, show_about, chatbot, environment, event, rerun_from,
                    results, relevant_chunks, prompt, message, response,
                    exception, llm_calls, messages_at_submit >>

\* if st.button("About"): show_about = True; st.rerun()
MenuAbout ==
    /\ pc = "menu_about"
    /\ IF event.kind = "about"
       THEN /\ show_about' = TRUE
            /\ StartScript(NoEvent, "about")
       ELSE /\ pc' = "about_dialog"
            /\ widgets' = widgets \cup { "menu_about" }
            /\ UNCHANGED << show_about, event, rerun_from, locals, exception,
                            llm_calls, messages_at_submit >>
    /\ UNCHANGED << messages, chatbot, environment >>

\* if show_about: ... if st.button("Close"): show_about = False; st.rerun()
AboutDialog ==
    /\ pc = "about_dialog"
    /\ IF show_about /\ event.kind = "close"
       THEN /\ show_about' = FALSE
            /\ StartScript(NoEvent, "close")
       ELSE /\ pc' = "initialize"
            /\ widgets' = IF show_about THEN widgets \cup { "close_about" }
                          ELSE widgets
            /\ UNCHANGED << show_about, event, rerun_from, locals, exception,
                            llm_calls, messages_at_submit >>
    /\ UNCHANGED << messages, chatbot, environment >>

\* initialize_chatbot without the check of the key.
initialize_chatbot_unchecked_key(has_collection, has_key) ==
    IF ~ has_collection
    THEN [ cached |-> TRUE, collection |-> "None", anthropic_client |-> "None" ]
    ELSE [ cached |-> TRUE, collection |-> "collection",
           anthropic_client |-> "client" ]

\* initialize_chatbot: (collection, anthropic_client), or (None, None) when
\* the collection is missing or the key is not set.
initialize_chatbot(has_collection, has_key) ==
    IF ~ has_collection
    THEN [ cached |-> TRUE, collection |-> "None", anthropic_client |-> "None" ]
    ELSE IF ~ has_key
    THEN [ cached |-> TRUE, collection |-> "None", anthropic_client |-> "None" ]
    ELSE [ cached |-> TRUE, collection |-> "collection",
           anthropic_client |-> "client" ]

\* collection, anthropic_client = initialize_chatbot(), computed once and
\* then served from the cache; st.stop() when either is missing.
Initialize ==
    /\ pc = "initialize"
    /\ chatbot' = IF chatbot.cached THEN chatbot
                  ELSE initialize_chatbot(collection_exists, ANTHROPIC_API_KEY)
    /\ pc' = IF chatbot'.collection = "None" \/ chatbot'.anthropic_client = "None"
             THEN "idle" ELSE "welcome"
    /\ UNCHANGED << messages, show_about, environment, event, rerun_from, widgets,
                    locals, exception, llm_calls, messages_at_submit >>

\* The welcome turn appended in every script, empty chat or not.
EnsureWelcomeAlways ==
    /\ pc = "welcome"
    /\ messages' = Append(messages, AssistantTurn(welcome_message))
    /\ pc' = "chat_input"
    /\ UNCHANGED << show_about, chatbot, environment, event, rerun_from, widgets,
                    locals, exception, llm_calls, messages_at_submit >>

\* if len(messages) == 0: messages.append(welcome)
EnsureWelcome ==
    /\ pc = "welcome"
    /\ messages' = IF Len(messages) = 0
                   THEN Append(messages, AssistantTurn(welcome_message))
                   ELSE messages
    /\ pc' = "chat_input"
    /\ UNCHANGED << show_about, chatbot, environment, event, rerun_from, widgets,
                    locals, exception, llm_calls, messages_at_submit >>

\* The chat input without the append of the user turn.
ChatInputNoUserTurn ==
    /\ pc = "chat_input"
    /\ widgets' = widgets \cup { "chat_input" }
    /\ IF event.kind = "submit" /\ event.query # << >>
       THEN /\ messages' = messages
            /\ pc' = "search"
       ELSE /\ pc' = "idle"
            /\ UNCHANGED messages
    /\ UNCHANGED << show_about, chatbot, environment, event, rerun_from, locals,
                    exception, llm_calls, messages_at_submit >>

\* The chat input with the user turn put in front: messages.insert(0, ...).
ChatInputInsertFront ==
    /\ pc = "chat_input"
    /\ widgets' = widgets \cup { "chat_input" }
    /\ IF event.kind = "submit" /\ event.query # << >>
       THEN /\ messages' = << UserTurn(event.query) >> \o messages
            /\ pc' = "search"
       ELSE /\ pc' = "idle"
            /\ UNCHANGED messages
    /\ UNCHANGED << show_about, chatbot, environment, event, rerun_from, locals,
                    exception, llm_calls, messages_at_submit >>

\* if query := st.chat_input(...): messages.append(user turn)
ChatInput ==
    /\ pc = "chat_input"
    /\ widgets' = widgets \cup { "chat_input" }
    /\ IF event.kind = "submit" /\ event.query # << >>
       THEN /\ messages' = Append(messages, UserTurn(event.query))
            /\ pc' = "search"
       ELSE /\ pc' = "idle"
            /\ UNCHANGED messages
    /\ UNCHANGED << show_about, chatbot, environment, event, rerun_from, locals,
                    exception, llm_calls, messages_at_submit >>

\* The test written as "relevant_chunks is None", which a list never is.
NoChunksIsNone(chunks) == FALSE

\* if not relevant_chunks
NoChunks(chunks) == chunks = << >>

\* relevant_chunks = search_knowledge_base(collection, query, TOP_K_RESULTS),
\* then the branch on it: the fixed reply, or on to generate_response.
Search ==
    /\ pc = "search"
    /\ \E s \in Hits(TOP_K_RESULTS) :
          /\ results' = QueryResult(s)
          /\ relevant_chunks' = search_knowledge_base(results')
    /\ IF NoChunks(relevant_chunks')
       THEN /\ response' = no_information_response
            /\ pc' = "append"
       ELSE /\ response' = response
            /\ pc' = "generate"
    /\ UNCHANGED << messages, show_about, chatbot, environment, event, rerun_from,
                    widgets, transcript, prompt, message, exception, llm_calls,
                    messages_at_submit >>

\* collection.query raises: nothing catches it and the script ends.
SearchRaises ==
    /\ pc = "search"
    /\ exception' = "search"
    /\ pc' = "idle"
    /\ UNCHANGED << messages, show_about, chatbot, environment, event, rerun_from,
                    widgets, locals, llm_calls, messages_at_submit >>

\* generate_response builds the prompt and calls messages.create with it.
GenerateCall ==
    /\ pc = "generate"
    /\ prompt' = Prompt(now, event.query, relevant_chunks)
    /\ llm_calls' = llm_calls + 1
    /\ pc' = "llm_wait"
    /\ UNCHANGED << messages, show_about, chatbot, environment, event, rerun_from,
                    widgets, transcript, results, relevant_chunks, message,
                    response, exception, messages_at_submit >>

\* messages.create answers; generate_response returns message.content[0].text.
GenerateReturn ==
    /\ pc = "llm_wait"
    /\ \E r \in Replies : message' = ApiMessage(r)
    /\ response' = message'.content[1].text
    /\ pc' = "append"
    /\ UNCHANGED << messages, show_about, chatbot, environment, event, rerun_from,
                    widgets, transcript, results, relevant_chunks, prompt,
                    exception, llm_calls, messages_at_submit >>

\* The failed call taking the user turn back out of the chat.
GenerateRaisesRollback ==
    /\ pc = "llm_wait"
    /\ exception' = "generate"
    /\ pc' = "idle"
    /\ messages' = messages_at_submit
    /\ UNCHANGED << show_about, chatbot, environment, event, rerun_from,
                    widgets, locals, llm_calls, messages_at_submit >>

\* messages.create raises: nothing catches it and the script ends.
GenerateRaises ==
    /\ pc = "llm_wait"
    /\ exception' = "generate"
    /\ pc' = "idle"
    /\ UNCHANGED << messages, show_about, chatbot, environment, event, rerun_from,
                    widgets, locals, llm_calls, messages_at_submit >>

\* The append left inside the else branch: no turn for the fixed reply.
AppendResponseInsideElse ==
    /\ pc = "append"
    /\ messages' = IF relevant_chunks = << >> THEN messages
                   ELSE Append(messages, AssistantTurn(response))
    /\ StartScript(NoEvent, "submit")
    /\ UNCHANGED << show_about, chatbot, environment >>

\* messages.append(assistant turn); st.rerun()
AppendResponse ==
    /\ pc = "append"
    /\ messages' = Append(messages, AssistantTurn(response))
    /\ StartScript(NoEvent, "submit")
    /\ UNCHANGED << show_about, chatbot, environment >>

Next ==
    \/ ClickClear
    \/ ClickDownload
    \/ ClickAbout
    \/ ClickClose
    \/ SubmitQuery
    \/ Tick
    \/ MenuClear
    \/ MenuDownload
    \/ MenuAbout
    \/ AboutDialog
    \/ Initialize
    \/ EnsureWelcome
    \/ ChatInput
    \/ Search
    \/ SearchRaises
    \/ GenerateCall
    \/ GenerateReturn
    \/ GenerateRaises
    \/ AppendResponse

Spec == Init /\ [][Next]_vars

\* ------------------------------------------------------------- get_transcript alone
\* The transcripts get_transcript is applied to: every sequence of at most
\* MaxExportLen turns, the empty one included.
ExportTurns ==
    { [ role |-> r, content |-> c ] :
        r \in { "user", "assistant" },
        c \in Queries \cup Replies \cup { welcome_message, no_information_response } }

ExportTranscripts == UNION { [1..n -> ExportTurns] : n \in 0..MaxExportLen }

InitExport ==
    /\ messages \in ExportTranscripts
    /\ show_about = FALSE
    /\ chatbot = Uncached
    /\ collection_exists = TRUE
    /\ ANTHROPIC_API_KEY = TRUE
    /\ now = 1
    /\ pc = "export"
    /\ event = NoEvent
    /\ rerun_from = "none"
    /\ widgets = { }
    /\ transcript = << >>
    /\ results = NoResult
    /\ relevant_chunks = << >>
    /\ prompt = << >>
    /\ message = NoMessage
    /\ response = << >>
    /\ exception = "none"
    /\ llm_calls = 0
    /\ messages_at_submit = << >>

\* transcript = get_transcript()
Export ==
    /\ pc = "export"
    /\ transcript' = get_transcript(messages)
    /\ pc' = "exported"
    /\ UNCHANGED << messages, show_about, chatbot, environment, event, rerun_from,
                    widgets, results, relevant_chunks, prompt, message, response,
                    exception, llm_calls, messages_at_submit >>

NextExport == Export

SpecExport == InitExport /\ [][NextExport]_vars

\* ------------------------------------------------------------- properties
WelcomeTurn == AssistantTurn(welcome_message)

\* The positions of a submit between the append of the user turn and the
\* append of the assistant turn.
InSubmit == pc \in { "search", "generate", "llm_wait", "append" }

\* The number of tokens of text equal to tok.
RECURSIVE CountToken(_, _)
CountToken(text, tok) ==
    IF text = << >> THEN 0
    ELSE (IF Head(text) = tok THEN 1 ELSE 0) + CountToken(Tail(text), tok)

\* The parts occur in text one after the other, without overlap, from
\* position from on.
RECURSIVE InOrder(_, _, _)
InOrder(text, parts, from) ==
    IF parts = << >> THEN TRUE
    ELSE \E p \in from..(Len(text) + 1) :
            /\ OccursAt(text, Head(parts), p)
            /\ InOrder(text, Tail(parts), p + Len(Head(parts)))

\* C1: generate_response is called only with at least one passage: a submit
\* whose search found nothing makes no language-model call, and whenever the
\* call is being made or has been made the passages are not empty.
C1_GenerateOnlyWithPassages ==
    /\ pc \in { "generate", "llm_wait" } => Len(relevant_chunks) > 0
    /\ llm_calls > 0 => Len(relevant_chunks) > 0
    /\ (pc = "append" /\ relevant_chunks = << >>) => llm_calls = 0
    /\ prompt # << >> => Len(relevant_chunks) > 0

\* The language model is being called with two passages.
C1_Witness ==
    /\ pc = "llm_wait"
    /\ llm_calls = 1
    /\ Len(relevant_chunks) = 2

\* C2: when the search of a submit finds nothing, the assistant turn appended
\* is the fixed reply with the phone number (313) 496-2600, whatever the query
\* and the transcript, and no language-model call was made.
C2_FallbackOnEmptySearch ==
    /\ [](  (pc = "append" /\ relevant_chunks = << >>)
            => /\ response = no_information_response
               /\ Contains(response, << "(313) 496-2600" >>)
               /\ llm_calls = 0 )
    /\ [][ (pc = "append" /\ relevant_chunks = << >>)
            => messages' = Append(messages, AssistantTurn(no_information_response))
         ]_vars

\* The fixed reply was appended after the query "asdkjasdlk".
C2_Witness ==
    /\ rerun_from = "submit"
    /\ Len(messages) >= 3
    /\ messages[Len(messages)] = AssistantTurn(no_information_response)
    /\ messages[Len(messages) - 1] = UserTurn(<< "asdkjasdlk" >>)

\* C3: a submit whose search finds passages and whose language-model call
\* answers r leaves the transcript as it was plus the user turn with the
\* question and then the assistant turn with r verbatim; the search comes
\* before the call and the call before the append of the assistant turn.
C3_SubmitAppendsQuestionThenReply ==
    /\ [](  InSubmit => messages = Append(messages_at_submit, UserTurn(event.query)) )
    /\ [](  pc = "search" => (llm_calls = 0 /\ results = NoResult) )
    /\ [](  pc \in { "generate", "llm_wait" }
            => /\ relevant_chunks = search_knowledge_base(results)
               /\ message = NoMessage )
    /\ [](  (pc = "append" /\ relevant_chunks # << >>)
            => /\ llm_calls = 1
               /\ message.content # << >>
               /\ response = message.content[1].text )
    /\ [][ (pc = "append" /\ relevant_chunks # << >>)
            => messages' = messages_at_submit
                           \o << UserTurn(event.query),
                                 AssistantTurn(message.content[1].text) >>
         ]_vars

\* The reply of the language model was appended after the question.
C3_Witness ==
    /\ rerun_from = "submit"
    /\ Len(messages) = 5
    /\ messages[4] = UserTurn(<< "When does registration start?" >>)
    /\ messages[5].role = "assistant"
    /\ messages[5].content \in Replies

\* C4: every step keeps the transcript as a prefix of the new transcript,
\* except the clear of the menu, which empties it.
C4_AppendOnlyExceptClear ==
    [][ \/ IsPrefix(messages, messages')
        \/ (pc = "menu_clear" /\ event.kind = "clear" /\ messages' = << >>)
      ]_vars

\* The clear has emptied a transcript that held turns.
C4_Witness ==
    /\ pc = "menu_clear"
    /\ rerun_from = "clear"
    /\ chatbot.collection = "collection"
    /\ messages = << >>

\* C5: the clear empties the transcript whatever it holds; the welcome step
\* appends the welcome turn exactly when the transcript is empty, so after a
\* clear the transcript is the welcome turn alone; and a transcript never
\* holds a welcome turn anywhere but at its first position.
C5_WelcomeOnceAtFront ==
    /\ [](  \A i \in 1..Len(messages) : messages[i] = WelcomeTurn => i = 1 )
    /\ [](  (pc = "chat_input" \/ InSubmit \/ "chat_input" \in widgets)
            => (messages # << >> /\ messages[1] = WelcomeTurn) )
    /\ [](  (rerun_from = "clear" /\ pc \in { "chat_input", "idle" }
             /\ chatbot.collection # "None")
            => messages = << WelcomeTurn >> )
    /\ [][ (pc = "menu_clear" /\ event.kind = "clear") => messages' = << >> ]_vars
    /\ [][ pc = "welcome"
            => messages' = IF messages = << >> THEN << WelcomeTurn >> ELSE messages
         ]_vars

\* After a clear the page shows the welcome turn alone.
C5_Witness ==
    /\ rerun_from = "clear"
    /\ pc = "idle"
    /\ messages = << WelcomeTurn >>

\* C7: when the collection is missing or the key is not set, no script gets
\* past the initialisation: the transcript stays empty, the chat input is
\* never rendered, and neither the search nor the language model is called.
C7_InitFailureHalts ==
    (~ collection_exists \/ ~ ANTHROPIC_API_KEY)
    => /\ messages = << >>
       /\ pc \in { "idle", "menu_clear", "menu_download", "menu_about",
                   "about_dialog", "initialize" }
       /\ "chat_input" \notin widgets
       /\ results = NoResult
       /\ llm_calls = 0
       /\ prompt = << >>

\* Without the key, a script started by the clear has stopped at st.stop().
C7_Witness ==
    /\ collection_exists
    /\ ~ ANTHROPIC_API_KEY
    /\ chatbot.cached
    /\ pc = "idle"
    /\ rerun_from = "clear"
    /\ show_about

\* The title, the URL and the content of hit i of the store's answer.
HitParts(i) ==
    << results.metadatas[1][i].title, results.metadatas[1][i].url,
       results.documents[1][i] >>

RECURSIVE AllHitParts(_)
AllHitParts(i) ==
    IF i > Len(results.documents[1]) THEN << >>
    ELSE HitParts(i) \o AllHitParts(i + 1)

\* C8: the prompt sent to the language model contains the date of the day,
\* the query as typed, and the title, the URL and the content of every hit
\* of the search, hit after hit in the order the store returned them, with
\* one Source block per hit.
C8_PromptCarriesDateQueryPassages ==
    pc = "llm_wait"
    => /\ Contains(prompt, strftime(now))
       /\ Contains(prompt, << "Student's question: " >> \o event.query)
       /\ InOrder(prompt, AllHitParts(1), 1)
       /\ CountToken(prompt, "Source: ") = Len(results.documents[1])
       /\ Len(relevant_chunks) = Len(results.documents[1])

\* The prompt of the second day carries two passages, the second passage of
\* the collection first.
C8_Witness ==
    /\ pc = "llm_wait"
    /\ now = 2
    /\ Len(relevant_chunks) = 2
    /\ relevant_chunks[1].title = << "Financial Aid" >>
    /\ event.query = << "When does registration start?" >>

\* C9: no two consecutive turns of the transcript have the same role.
C9_TurnsAlternate ==
    \A i \in 1..(Len(messages) - 1) : messages[i].role # messages[i + 1].role

\* C10: when the search or the language-model call of a submit raises, the
\* script ends there: the transcript is the one before the submit plus the
\* user turn, no assistant turn is appended for it, and the next submit
\* appends after that user turn.
C10_FailedSubmitKeepsUserTurn ==
    /\ exception # "none"
        => /\ pc = "idle"
           /\ messages = Append(messages_at_submit, UserTurn(event.query))
           /\ "chat_input" \in widgets
    /\ InSubmit
        => /\ messages_at_submit # << >>
           /\ messages = Append(messages_at_submit, UserTurn(event.query))

\* The language-model call failed for a submit made after a failed submit.
C10_Witness ==
    /\ exception = "generate"
    /\ Len(messages) >= 3
    /\ messages[Len(messages)].role = "user"
    /\ messages[Len(messages) - 1].role = "user"

\* The number of tokens of the block get_transcript writes for msg.
BlockLen(msg) == Len(msg.content) + 7

\* The position of the label of turn i in the export of msgs.
RECURSIVE BlockStart(_, _)
BlockStart(msgs, i) ==
    IF i = 1 THEN 6 ELSE BlockStart(msgs, i - 1) + BlockLen(msgs[i - 1])

\* No turn of msgs has a label of the export in its content.
NoLabelInContent(msgs) ==
    \A i \in 1..Len(msgs) :
        /\ CountToken(msgs[i].content, "Student:") = 0
        /\ CountToken(msgs[i].content, "Assistant:") = 0

====
